---- MODULE Spec2Model ----
(***************************************************************************)
(* Model of the dynamic plugin loader of src/dynamic-loading:              *)
(* PluginManager (plugin_manager.h / plugin_manager.cpp), the Plugin       *)
(* descriptor (plugin.h) and the dynamic loader calls it makes (dlopen,    *)
(* dlsym, dlclose).  Every call the manager makes into the loader or into  *)
(* a plugin is recorded, in order, in the history variable trace.          *)
(***************************************************************************)
EXTENDS Integers, Sequences, FiniteSets, TLC

(* ---------------------------- bounds ----------------------------------- *)
\* The number of calls of load, on_file_save and clear the host makes.
MaxCalls == 4
\* The largest argc the driver is started with.
MaxArgc == 4
\* The largest start that expensive_calculation is called with (13! would
\* overflow int; the products up to MaxStart + 1 do not).
MaxStart == 5

(* ------------------------ the environment ------------------------------ *)
\* Paths a caller may hand to load().  a.so and b.so export plugin_register,
\* nosym.so is a loadable image without it, missing.so cannot be mapped.
Paths == {"a.so", "b.so", "nosym.so", "missing.so"}
Loadable == {"a.so", "b.so", "nosym.so"}
HasRegister == {"a.so", "b.so"}
\* The opaque state pointer each plugin library returns in Plugin.data.
PluginData == [l \in HasRegister |-> IF l = "a.so" THEN "state_a" ELSE "state_b"]
\* Arguments of on_file_save.
Filenames == {"hello_world.txt"}
Buffers == {"", "Hello World!"}

nullptr == "nullptr"
NoPlugin == [id |-> 0, lib |-> nullptr, data |-> nullptr]

\* libraries, plugins: the manager's two vectors.  refs: the loader's
\* reference counts.  cerr: the diagnostics written to std::cerr.  main: the
\* reference driver (main.cpp).  calc: one run of expensive_calculation.
\* nextId, alive, trace, nCalls: the history.
VARIABLES libraries, plugins, refs, nextId, alive, trace, nCalls, cerr, main, calc
vars == <<libraries, plugins, refs, nextId, alive, trace, nCalls, cerr, main, calc>>

(* --------------------------- the history ------------------------------- *)
\* One recorded call.  depth is 0 for calls made on behalf of the host's own
\* call of the manager and 1 for calls made on behalf of a call that a plugin
\* callback made back into the manager.  mapped is set by Run for the calls
\* that go into a library image.
Ev(op, lib, p, file, contents, ok, depth) ==
    [op |-> op, lib |-> lib, id |-> p.id, data |-> p.data, file |-> file,
     contents |-> contents, ok |-> ok, depth |-> depth, mapped |-> TRUE]

\* The entry into a call of the manager; load records the path it was given
\* and on_file_save its two arguments.
Call(op, lib, file, contents, depth) == Ev(op, lib, NoPlugin, file, contents, TRUE, depth)

CallOps == {"call:load", "call:on_file_save", "call:clear", "call:~PluginManager"}
Callbacks == {"on_plugin_load", "on_plugin_unload", "on_file_save"}

\* The dynamic loader keeps one reference count per image: dlopen of an
\* image that is already mapped returns the same handle and adds a reference,
\* dlclose drops one, and the image is unmapped when the count reaches zero.
Mapped(r, lib) == lib \in DOMAIN r /\ r[lib] > 0

RefsStep(r, s) ==
    IF s.op = "dlopen" /\ s.ok THEN [r EXCEPT ![s.lib] = @ + 1]
    ELSE IF s.op = "dlclose" /\ Mapped(r, s.lib) THEN [r EXCEPT ![s.lib] = @ - 1]
    ELSE r

\* Whether the image a call goes into is mapped at the time of the call.
MappedAt(r, s) ==
    IF s.op \in Callbacks \cup {"dlsym", "register", "dlclose"}
    THEN Mapped(r, s.lib) ELSE TRUE

RECURSIVE Run(_, _)
\* Carry out the calls of steps, in order, against the loader state r.
Run(r, steps) ==
    IF steps = << >> THEN [refs |-> r, out |-> << >>]
    ELSE LET s == Head(steps)
             rest == Run(RefsStep(r, s), Tail(steps))
         IN [refs |-> rest.refs,
             out |-> <<[s EXCEPT !.mapped = MappedAt(r, s)]>> \o rest.out]

(* --------------------------- dlopen / dlsym ---------------------------- *)
dlopen(filename) == IF filename \in Loadable THEN filename ELSE nullptr

dlsym(library) == IF library \in HasRegister THEN "plugin_register" ELSE nullptr

(* --------------------------- PluginManager::load ----------------------- *)
\* Faulty variant: the early return after a failed dlopen is missing
LoadSteps_NoNullCheck(filename, plugin, depth) ==
    LET library == dlopen(filename) IN
    <<Ev("dlopen", IF library = nullptr THEN filename ELSE library,
         NoPlugin, "", "", library # nullptr, depth)>> \o
    ( IF library = nullptr \/ dlsym(library) = nullptr
      THEN <<Ev("dlsym", library, NoPlugin, "", "", FALSE, depth)>>
      ELSE <<Ev("dlsym", library, NoPlugin, "", "", TRUE, depth),
             Ev("register", library, plugin, "", "", TRUE, depth),
             Ev("on_plugin_load", library, plugin, "", "", TRUE, depth)>> )

\* The calls load makes, the plugin being what plugin_register returns.
LoadSteps(filename, plugin, depth) ==
    LET library == dlopen(filename) IN
    IF library = nullptr
    THEN <<Ev("dlopen", filename, NoPlugin, "", "", FALSE, depth)>>
    ELSE <<Ev("dlopen", library, NoPlugin, "", "", TRUE, depth)>> \o
         ( IF dlsym(library) = nullptr
           THEN <<Ev("dlsym", library, NoPlugin, "", "", FALSE, depth)>>
           ELSE <<Ev("dlsym", library, NoPlugin, "", "", TRUE, depth),
                  Ev("register", library, plugin, "", "", TRUE, depth),
                  Ev("on_plugin_load", library, plugin, "", "", TRUE, depth)>> )

\* Faulty variant: the handle is remembered only once plugin_register was found
LibrariesAfterLoad_OnSuccess(libs, filename) ==
    IF dlopen(filename) = nullptr \/ dlsym(dlopen(filename)) = nullptr
    THEN libs ELSE Append(libs, dlopen(filename))

\* Faulty variant: a null handle is remembered too
LibrariesAfterLoad_NoNullCheck(libs, filename) == Append(libs, dlopen(filename))

\* libraries after load: the handle is pushed as soon as dlopen succeeded.
LibrariesAfterLoad(libs, filename) ==
    IF dlopen(filename) = nullptr THEN libs ELSE Append(libs, dlopen(filename))

\* Faulty variant: the early return after a failed dlsym is missing
PluginsAfterLoad_NoSymbolCheck(ps, filename, plugin) ==
    IF dlopen(filename) = nullptr THEN ps ELSE Append(ps, plugin)

\* plugins after load: pushed only when plugin_register was found.
PluginsAfterLoad(ps, filename, plugin) ==
    IF dlopen(filename) = nullptr THEN ps
    ELSE IF dlsym(dlopen(filename)) = nullptr THEN ps
    ELSE Append(ps, plugin)

Registers(filename) == dlopen(filename) # nullptr /\ dlsym(dlopen(filename)) # nullptr

\* Plugin plugin = register_func(): the descriptor the library hands back; id
\* numbers the registrations, so that two instances can be told apart.
plugin_register(library, id) == [id |-> id, lib |-> library, data |-> PluginData[library]]

\* The local variable plugin of load: set only when register_func was found.
LoadedPlugin(filename, id) ==
    IF Registers(filename) THEN plugin_register(dlopen(filename), id) ELSE NoPlugin

\* What load writes to std::cerr: one line per early return.
LoadDiagnostics(filename) ==
    IF dlopen(filename) = nullptr
    THEN <<"Unable to load the " \o filename \o " library">>
    ELSE IF dlsym(dlopen(filename)) = nullptr
    THEN <<"Couldn't find the \"plugin_register\" function">>
    ELSE << >>

LoadBody(filename) ==
    LET plugin == LoadedPlugin(filename, nextId)
        run == Run(refs, LoadSteps(filename, plugin, 0))
    IN /\ libraries' = LibrariesAfterLoad(libraries, filename)
       /\ plugins' = PluginsAfterLoad(plugins, filename, plugin)
       /\ refs' = run.refs
       /\ trace' = trace \o <<Call("call:load", filename, "", "", 0)>> \o run.out
       /\ nextId' = IF Registers(filename) THEN nextId + 1 ELSE nextId
       /\ cerr' = cerr \o LoadDiagnostics(filename)

load(filename) ==
    /\ alive
    /\ nCalls < MaxCalls
    /\ LoadBody(filename)
    /\ nCalls' = nCalls + 1
    /\ UNCHANGED <<alive, main, calc>>

(* ----------------------- PluginManager::on_file_save ------------------- *)
\* Faulty variant: the loop starts at the second plugin
FileSaveSteps_SkipFirst(ps, filename, contents, depth) ==
    [k \in 1..(Len(ps) - 1) |->
        Ev("on_file_save", ps[k + 1].lib, ps[k + 1], filename, contents, TRUE, depth)]

\* Faulty variant: every plugin is handed the state of the first one
FileSaveSteps_FirstData(ps, filename, contents, depth) ==
    [k \in 1..Len(ps) |->
        Ev("on_file_save", ps[k].lib, [ps[k] EXCEPT !.data = ps[1].data],
           filename, contents, TRUE, depth)]

FileSaveSteps(ps, filename, contents, depth) ==
    [k \in 1..Len(ps) |->
        Ev("on_file_save", ps[k].lib, ps[k], filename, contents, TRUE, depth)]

\* Faulty variant: the broadcast forgets the instance it called last
FileSaveBody_DropsLast(filename, contents) ==
    LET run == Run(refs, FileSaveSteps(plugins, filename, contents, 0))
    IN /\ refs' = run.refs
       /\ trace' = trace \o <<Call("call:on_file_save", nullptr, filename, contents, 0)>> \o run.out
       /\ plugins' = SubSeq(plugins, 1, Len(plugins) - 1)
       /\ UNCHANGED <<libraries, nextId, cerr>>

FileSaveBody(filename, contents) ==
    LET run == Run(refs, FileSaveSteps(plugins, filename, contents, 0))
    IN /\ refs' = run.refs
       /\ trace' = trace \o <<Call("call:on_file_save", nullptr, filename, contents, 0)>> \o run.out
       /\ UNCHANGED <<libraries, plugins, nextId, cerr>>

on_file_save(filename, contents) ==
    /\ alive
    /\ nCalls < MaxCalls
    /\ FileSaveBody(filename, contents)
    /\ nCalls' = nCalls + 1
    /\ UNCHANGED <<alive, main, calc>>

(* --------------------------- PluginManager::clear ---------------------- *)
\* Faulty variant: the unload loop stops one plugin early
UnloadSteps_SkipLast(ps, depth) ==
    [k \in 1..(Len(ps) - 1) |->
        Ev("on_plugin_unload", ps[k].lib, ps[k], "", "", TRUE, depth)]

UnloadSteps(ps, depth) ==
    [k \in 1..Len(ps) |-> Ev("on_plugin_unload", ps[k].lib, ps[k], "", "", TRUE, depth)]

\* Faulty variant: the handles are closed in reverse order
CloseSteps_Reversed(libs, depth) ==
    [k \in 1..Len(libs) |->
        Ev("dlclose", libs[Len(libs) + 1 - k], NoPlugin, "", "", TRUE, depth)]

CloseSteps(libs, depth) ==
    [k \in 1..Len(libs) |-> Ev("dlclose", libs[k], NoPlugin, "", "", TRUE, depth)]

\* Faulty variant: the DLLs are unloaded before the plugins have cleaned up
ClearSteps_CloseFirst(ps, libs, depth) == CloseSteps(libs, depth) \o UnloadSteps(ps, depth)

\* let each plugin clean up after itself, then unload the DLLs from memory
ClearSteps(ps, libs, depth) == UnloadSteps(ps, depth) \o CloseSteps(libs, depth)

\* Faulty variants: one of the two collections is not emptied
PluginsAfterClear_Keep(ps) == ps
LibrariesAfterClear_Keep(libs) == libs

\* plugins.clear(); libraries.clear();
PluginsAfterClear(ps) == << >>
LibrariesAfterClear(libs) == << >>

ClearBody(marker) ==
    LET run == Run(refs, ClearSteps(plugins, libraries, 0))
    IN /\ refs' = run.refs
       /\ trace' = trace \o <<Call(marker, nullptr, "", "", 0)>> \o run.out
       /\ plugins' = PluginsAfterClear(plugins)
       /\ libraries' = LibrariesAfterClear(libraries)
       /\ UNCHANGED <<nextId, cerr>>

clear ==
    /\ alive
    /\ nCalls < MaxCalls
    /\ ClearBody("call:clear")
    /\ nCalls' = nCalls + 1
    /\ UNCHANGED <<alive, main, calc>>

\* ~PluginManager: clear(), after which the manager no longer exists.
PluginManager_dtor ==
    /\ alive
    /\ ClearBody("call:~PluginManager")
    /\ alive' = FALSE
    /\ UNCHANGED <<nCalls, main, calc>>

(* ------------------------------ the system ----------------------------- *)
\* The driver and the calculation when they are not running.
NoMain == [pc |-> "none", argv |-> << >>, filename |-> "", buffer |-> "", ret |-> 0]
NoCalc == [pc |-> "none", stateful |-> FALSE, start |-> 0, state |-> nullptr,
           i |-> 0, result |-> 0, calls |-> << >>]

\* A manager that holds nothing, and nothing written or recorded yet.
InitManager ==
    /\ libraries = << >>
    /\ plugins = << >>
    /\ refs = [l \in Loadable |-> 0]
    /\ nextId = 1
    /\ trace = << >>
    /\ nCalls = 0
    /\ cerr = << >>

Init ==
    /\ InitManager
    /\ alive = TRUE
    /\ main = NoMain
    /\ calc = NoCalc

Next ==
    \/ \E filename \in Paths : load(filename)
    \/ \E filename \in Filenames, contents \in Buffers : on_file_save(filename, contents)
    \/ clear
    \/ PluginManager_dtor

Spec == Init /\ [][Next]_vars

(* --------------------------- main (main.cpp) --------------------------- *)
\* argv[0], and the text the driver appends to its buffer.
ProgramName == "editor"
HelloWorld == "Hello World!"
Lorem ==
    "Lorem ipsum dolor sit amet, consectetur adipiscing elit, sed do"
    \o "eiusmod tempor incididunt ut labore et dolore magna aliqua. Ut enim ad"
    \o "minim veniam, quis nostrud exercitation ullamco laboris nisi ut aliquip"
    \o "ex ea commodo consequat. Duis aute irure dolor in reprehenderit in"

\* main.argv holds argv[1..]; argc counts argv[0] too.
Argc == Len(main.argv) + 1

\* Faulty variant: surplus arguments are accepted
ArgsOk_AtLeast(argc) == argc >= 2

\* if (argc != 2) { usage; return 1; }
ArgsOk(argc) == argc = 2

\* Faulty variant: the buffer is replaced by the new text
Appended_Replaced(buffer, text) == text

\* buffer += text
Appended(buffer, text) == buffer \o text

\* The statement after each statement of main.
NextPc ==
    [load |-> "save1", save1 |-> "append1", append1 |-> "save2", save2 |-> "append2",
     append2 |-> "save3", save3 |-> "clear_buffer", clear_buffer |-> "save4",
     save4 |-> "return"]

main_usage ==
    /\ main.pc = "start"
    /\ ~ArgsOk(Argc)
    /\ cerr' = Append(cerr, "USAGE: " \o ProgramName \o " <plugin.so>")
    /\ main' = [main EXCEPT !.pc = "exited", !.ret = 1]
    /\ UNCHANGED <<libraries, plugins, refs, nextId, alive, trace, nCalls, calc>>

\* PluginManager pm;
main_construct ==
    /\ main.pc = "start"
    /\ ArgsOk(Argc)
    /\ alive' = TRUE
    /\ main' = [main EXCEPT !.pc = "load"]
    /\ UNCHANGED <<libraries, plugins, refs, nextId, trace, nCalls, cerr, calc>>

\* pm.load(argv[1]); std::string filename = "hello_world.txt"; std::string buffer;
main_load ==
    /\ main.pc = "load"
    /\ LoadBody(main.argv[1])
    /\ main' = [main EXCEPT !.pc = NextPc.load, !.filename = "hello_world.txt",
                            !.buffer = ""]
    /\ UNCHANGED <<alive, nCalls, calc>>

\* pm.on_file_save(filename, buffer);
main_save ==
    /\ main.pc \in {"save1", "save2", "save3", "save4"}
    /\ FileSaveBody(main.filename, main.buffer)
    /\ main' = [main EXCEPT !.pc = NextPc[main.pc]]
    /\ UNCHANGED <<alive, nCalls, calc>>

\* buffer += "Hello World!";  buffer += "Lorem ipsum ...";
main_append ==
    /\ main.pc \in {"append1", "append2"}
    /\ main' = [main EXCEPT !.pc = NextPc[main.pc],
                            !.buffer = Appended(main.buffer,
                                IF main.pc = "append1" THEN HelloWorld ELSE Lorem)]
    /\ UNCHANGED <<libraries, plugins, refs, nextId, alive, trace, nCalls, cerr, calc>>

\* buffer.clear();
main_clear_buffer ==
    /\ main.pc = "clear_buffer"
    /\ main' = [main EXCEPT !.pc = NextPc.clear_buffer, !.buffer = ""]
    /\ UNCHANGED <<libraries, plugins, refs, nextId, alive, trace, nCalls, cerr, calc>>

\* return 0; which destroys pm.
main_return ==
    /\ main.pc = "return"
    /\ ClearBody("call:~PluginManager")
    /\ alive' = FALSE
    /\ main' = [main EXCEPT !.pc = "exited", !.ret = 0]
    /\ UNCHANGED <<nCalls, calc>>

\* The driver started with any command line of up to MaxArgc words; no
\* manager exists before main constructs one.
InitMain ==
    /\ InitManager
    /\ alive = FALSE
    /\ calc = NoCalc
    /\ \E n \in 0..(MaxArgc - 1) : \E args \in [1..n -> Paths] :
          main = [pc |-> "start", argv |-> args, filename |-> "", buffer |-> "", ret |-> 0]

NextMain ==
    \/ main_usage
    \/ main_construct
    \/ main_load
    \/ main_save
    \/ main_append
    \/ main_clear_buffer
    \/ main_return

SpecMain == InitMain /\ [][NextMain]_vars

(* ------------- expensive_calculation (callbacks/app/src/expensive.c) --- *)
\* What a callback may return, and the state pointers a caller may pass.
CallbackReturns == {0, 1, 7}
CalcStates == {"stats_1", "stats_2"}

\* Faulty variant: the loop stops one iteration early
LoopCond_Exclusive(i, start) == i < start

\* for (int i = 1; i <= start; ++i)
LoopCond(i, start) == i <= start

\* if (!should_continue) return;
ShouldReturn(should_continue) == should_continue = 0

\* One iteration: result *= i; the callback is called with result (and with
\* the state pointer, in the stateful version) and returns ret.
calc_iterate(ret) ==
    /\ calc.pc = "loop"
    /\ LoopCond(calc.i, calc.start)
    /\ LET result == calc.result * calc.i
       IN calc' = [calc EXCEPT
                     !.result = result,
                     !.calls = Append(@, [state |-> calc.state, arg |-> result, ret |-> ret]),
                     !.pc = IF ShouldReturn(ret) THEN "returned" ELSE "loop",
                     !.i = IF ShouldReturn(ret) THEN @ ELSE @ + 1]
    /\ UNCHANGED <<libraries, plugins, refs, nextId, alive, trace, nCalls, cerr, main>>

\* The loop condition fails: return.
calc_return ==
    /\ calc.pc = "loop"
    /\ ~LoopCond(calc.i, calc.start)
    /\ calc' = [calc EXCEPT !.pc = "returned"]
    /\ UNCHANGED <<libraries, plugins, refs, nextId, alive, trace, nCalls, cerr, main>>

\* expensive_calculation(start, cb) or stateful_expensive_calculation(start,
\* cb, state) has just been entered: int result = 1; int i = 1.
InitCalc ==
    /\ InitManager
    /\ alive = FALSE
    /\ main = NoMain
    /\ \E start \in (-1)..MaxStart, stateful \in BOOLEAN, state \in CalcStates :
          calc = [pc |-> "loop", stateful |-> stateful, start |-> start,
                  state |-> IF stateful THEN state ELSE nullptr,
                  i |-> 1, result |-> 1, calls |-> << >>]

NextCalc ==
    \/ \E ret \in CallbackReturns : calc_iterate(ret)
    \/ calc_return

SpecCalc == InitCalc /\ [][NextCalc]_vars

(* ------------------ calls made from within a callback ------------------ *)
\* The calls a plugin's on_plugin_unload callback may make back into the
\* manager that is calling it.
InnerCalls ==
    [op : {"call:load"}, lib : Paths, file : {""}, contents : {""}]
    \cup [op : {"call:on_file_save"}, lib : {nullptr}, file : Filenames, contents : Buffers]
    \cup [op : {"call:clear"}, lib : {nullptr}, file : {""}, contents : {""}]

\* The manager has no lifecycle flag and its methods check nothing, so the
\* inner call runs the same code as a call by the host.
InnerSteps(inner) ==
    <<Call(inner.op, inner.lib, inner.file, inner.contents, 1)>> \o
    ( IF inner.op = "call:load"
      THEN LoadSteps(inner.lib, LoadedPlugin(inner.lib, nextId), 1)
      ELSE IF inner.op = "call:on_file_save"
      THEN FileSaveSteps(plugins, inner.file, inner.contents, 1)
      ELSE ClearSteps(plugins, libraries, 1) )

InnerLibraries(inner) ==
    IF inner.op = "call:load" THEN LibrariesAfterLoad(libraries, inner.lib)
    ELSE IF inner.op = "call:clear" THEN LibrariesAfterClear(libraries)
    ELSE libraries

InnerPlugins(inner) ==
    IF inner.op = "call:load"
    THEN PluginsAfterLoad(plugins, inner.lib, LoadedPlugin(inner.lib, nextId))
    ELSE IF inner.op = "call:clear" THEN PluginsAfterClear(plugins)
    ELSE plugins

\* clear() called by the host, where the on_plugin_unload callback of the
\* k-th plugin calls the manager.  If the inner call changed plugins
\* (push_back or clear()), the iterators of the running range-for are
\* invalid and going on is undefined behaviour: the loop either goes on over
\* the elements it had left, or the process dies there.
clear_reentered(k, inner, dies) ==
    /\ alive
    /\ nCalls < MaxCalls
    /\ k \in DOMAIN plugins
    /\ LET invalid == InnerPlugins(inner) # plugins
           steps == <<Call("call:clear", nullptr, "", "", 0)>>
                    \o UnloadSteps(SubSeq(plugins, 1, k), 0)
                    \o InnerSteps(inner)
                    \o ( IF invalid /\ dies THEN << >>
                         ELSE UnloadSteps(SubSeq(plugins, k + 1, Len(plugins)), 0)
                              \o CloseSteps(InnerLibraries(inner), 0) )
           run == Run(refs, steps)
       IN /\ dies => invalid
          /\ refs' = run.refs
          /\ trace' = trace \o run.out
          /\ plugins' = IF invalid /\ dies THEN InnerPlugins(inner) ELSE PluginsAfterClear(plugins)
          /\ libraries' = IF invalid /\ dies THEN InnerLibraries(inner)
                          ELSE LibrariesAfterClear(libraries)
          /\ alive' = ~(invalid /\ dies)
          /\ nextId' = IF inner.op = "call:load" /\ Registers(inner.lib)
                       THEN nextId + 1 ELSE nextId
          /\ cerr' = cerr \o (IF inner.op = "call:load" THEN LoadDiagnostics(inner.lib) ELSE << >>)
    /\ nCalls' = nCalls + 1
    /\ UNCHANGED <<main, calc>>

NextReentrant ==
    \/ Next
    \/ \E k \in 1..MaxCalls, inner \in InnerCalls, dies \in BOOLEAN :
           clear_reentered(k, inner, dies)

\* The manager used by a host whose plugins can reach it.
SpecReentrant == Init /\ [][NextReentrant]_vars

(* ------------------------- reading the history ------------------------- *)
Max(S) == CHOOSE x \in S : \A y \in S : y <= x

\* The host's calls of the manager, as positions of trace.
HostCalls == {m \in DOMAIN trace : trace[m].op \in CallOps /\ trace[m].depth = 0}
ClearCalls == {m \in HostCalls : trace[m].op \in {"call:clear", "call:~PluginManager"}}

\* The host call during which the call at position k was made.
CallOf(k) == Max({m \in HostCalls : m <= k})
\* The last position of the execution of the host call at m.
EndOf(m) == Max({k \in DOMAIN trace : CallOf(k) = m})
\* What the manager did during the host call at m, in order.
Segment(m) == SubSeq(trace, m + 1, EndOf(m))
\* The last clear() (or 0) that completed before position m.
PrevClear(m) == Max({0} \cup {c \in ClearCalls : c < m})
\* Everything that happened after that clear() and before m.
SinceClear(m) == SubSeq(trace, PrevClear(m) + 1, m - 1)
LastCall == Max({0} \cup HostCalls)

IsLoadedOk(e) == e.op = "on_plugin_load"
IsOpened(e) == e.op = "dlopen" /\ e.ok
Ids(evs) == [k \in DOMAIN evs |-> evs[k].id]
LibsOf(evs) == [k \in DOMAIN evs |-> evs[k].lib]
Only(evs, op) == SelectSeq(evs, LAMBDA e : e.op = op)

\* The instances loaded, and the handles opened, since the last clear().
HeldAt(m) == Ids(SelectSeq(SinceClear(m), IsLoadedOk))
OpenedAt(m) == LibsOf(SelectSeq(SinceClear(m), IsOpened))

TypeOK ==
    /\ Len(plugins) <= Len(libraries)
    /\ \A l \in Loadable : refs[l] >= 0

(* ------------------------------- C1 ------------------------------------ *)
\* C1: in one execution of clear() no dlclose happens before the
\* on_plugin_unload of every plugin the manager holds has returned: every
\* dlclose of the execution comes after an on_plugin_unload of each held
\* instance, and no on_plugin_unload follows a dlclose.
C1_TwoPhaseTeardown ==
    \A m \in ClearCalls :
        LET seg == Segment(m) IN
        \A k \in DOMAIN seg :
            seg[k].op = "dlclose" =>
                /\ \A j \in DOMAIN seg : j > k => seg[j].op = "dlclose"
                /\ \A n \in DOMAIN HeldAt(m) :
                      \E j \in 1..(k - 1) :
                          seg[j].op = "on_plugin_unload" /\ seg[j].id = HeldAt(m)[n]

\* A clear() that unloaded two plugins and closed at least two handles.
C1_Witness ==
    \E m \in ClearCalls :
        /\ Len(Only(Segment(m), "on_plugin_unload")) >= 2
        /\ Len(Only(Segment(m), "dlclose")) >= 2

(* ------------------------------- C2 ------------------------------------ *)
\* C2: every broadcast visits the instances in load order, clear() unloads
\* them in load order and closes the handles in the order they were opened.
C2_LoadOrderPreserved ==
    \A m \in HostCalls :
        LET seg == Segment(m) IN
        /\ trace[m].op = "call:on_file_save" =>
              Ids(Only(seg, "on_file_save")) = HeldAt(m)
        /\ m \in ClearCalls =>
              /\ Ids(Only(seg, "on_plugin_unload")) = HeldAt(m)
              /\ LibsOf(Only(seg, "dlclose")) = OpenedAt(m)

\* a.so then b.so loaded with a failed load in between, a broadcast and a
\* clear() that tore both down.
C2_Witness ==
    \E m \in ClearCalls, b \in HostCalls :
        /\ b < m
        /\ trace[b].op = "call:on_file_save"
        /\ LibsOf(Only(Segment(b), "on_file_save")) = <<"a.so", "b.so">>
        /\ LibsOf(Only(Segment(m), "on_plugin_unload")) = <<"a.so", "b.so">>
        /\ Len(Only(Segment(m), "dlclose")) = 3

(* ------------------------------- C3 ------------------------------------ *)
LoadCalls == {m \in HostCalls : trace[m].op = "call:load"}
\* The position after the last recorded call: "now".
Now == Len(trace) + 1

\* C3 as claimed: once a clear() has completed the manager is closed for
\* good: a later load does nothing (it opens no library and calls nothing)
\* and both collections stay empty.
C3_ManagerClosed ==
    /\ \A m \in LoadCalls : PrevClear(m) > 0 => Segment(m) = << >>
    /\ PrevClear(Now) > 0 => (Len(plugins) = 0 /\ Len(libraries) = 0)

\* C3 as amended: clear() leaves both collections empty and the manager
\* usable: every load, also one after a clear(), starts by opening its
\* library, and the collections hold exactly what was opened and loaded since
\* the last clear() (nothing, if no load followed it).
C3_ClearResets ==
    /\ \A m \in LoadCalls :
          /\ Segment(m) # << >>
          /\ Segment(m)[1].op = "dlopen"
          /\ Segment(m)[1].ok = (trace[m].lib \in Loadable)
    /\ libraries = OpenedAt(Now)
    /\ Ids(plugins) = HeldAt(Now)

\* A clear() that tore a plugin down, followed by a successful load.
C3_Witness ==
    \E c \in ClearCalls :
        /\ Len(Only(Segment(c), "on_plugin_unload")) >= 1
        /\ c = PrevClear(Now)
        /\ Len(plugins) = 1
        /\ Len(libraries) = 1

(* ------------------------------- C4 ------------------------------------ *)
\* The loads that mapped the image and then failed to resolve plugin_register.
SymbolFailures ==
    {m \in LoadCalls : \E k \in DOMAIN Segment(m) :
                          Segment(m)[k].op = "dlsym" /\ ~Segment(m)[k].ok}

Count(seq, x) == Cardinality({k \in DOMAIN seq : seq[k] = x})

\* C4 as claimed: a load that fails at symbol resolution dlcloses the handle
\* itself and does not retain it.
C4_ClosesPartialHandle ==
    \A m \in SymbolFailures :
        /\ \E k \in DOMAIN Segment(m) :
              Segment(m)[k].op = "dlclose" /\ Segment(m)[k].lib = trace[m].lib
        /\ m = LastCall => libraries = OpenedAt(m)

\* C4 as amended: a load that fails at symbol resolution does not close the
\* handle: it leaves the image mapped and the handle appended to libraries;
\* the next clear() (or the destructor) dlcloses it, and every reference the
\* manager holds on an image is in libraries, so nothing leaks.
C4_RetainsPartialHandle ==
    /\ \A m \in SymbolFailures :
          /\ Only(Segment(m), "dlclose") = << >>
          /\ m = LastCall =>
                /\ libraries = Append(OpenedAt(m), trace[m].lib)
                /\ refs[trace[m].lib] > 0
          /\ \A c \in ClearCalls :
                PrevClear(c) < m /\ m < c =>
                    \E k \in DOMAIN Segment(c) :
                        Segment(c)[k].op = "dlclose" /\ Segment(c)[k].lib = trace[m].lib
    /\ \A l \in Loadable : refs[l] = Count(libraries, l)

\* A load of nosym.so failed at dlsym, and a later clear() closed the handle.
C4_Witness ==
    \E m \in SymbolFailures, c \in ClearCalls :
        /\ m < c
        /\ \E k \in DOMAIN Segment(c) :
              Segment(c)[k].op = "dlclose" /\ Segment(c)[k].lib = "nosym.so"
        /\ refs["nosym.so"] = 0

(* ------------------------------- C5 ------------------------------------ *)
\* C5 as claimed: libraries and plugins have the same length and the i-th
\* handle is the library of the i-th instance.
C5_IndexAligned ==
    /\ Len(libraries) = Len(plugins)
    /\ \A k \in DOMAIN plugins : plugins[k].lib = libraries[k]

\* C5 as amended: there are at most as many instances as handles; the
\* libraries of the instances, in order, are the handles of libraries that
\* export plugin_register, in order (a handle whose load failed at symbol
\* resolution is retained without an instance); no instance is held twice and
\* each load adds at most one.
C5_InstancesFollowHandles ==
    /\ Len(plugins) <= Len(libraries)
    /\ LibsOf(plugins) = SelectSeq(libraries, LAMBDA h : dlsym(h) # nullptr)
    /\ \A j, k \in DOMAIN plugins : plugins[j].id = plugins[k].id => j = k
    /\ \A m \in LoadCalls : Len(Only(Segment(m), "on_plugin_load")) <= 1

\* a.so, nosym.so and b.so loaded: three handles, two instances.
C5_Witness ==
    /\ libraries = <<"a.so", "nosym.so", "b.so">>
    /\ LibsOf(plugins) = <<"a.so", "b.so">>

(* ------------------------------- C6 ------------------------------------ *)
\* What this step appended to the history.
NewEvents == SubSeq(trace', Len(trace) + 1, Len(trace'))
\* This step is a load of an image that lacks plugin_register.
LoadsNoSymbol ==
    /\ Len(trace') > Len(trace)
    /\ NewEvents[1].op = "call:load"
    /\ NewEvents[1].lib \in Loadable \ HasRegister

\* C6: a load of a library without plugin_register fails at dlsym: neither
\* the registration function nor on_plugin_load is called, and plugins is
\* left as it was.
C6_MissingSymbol ==
    [][LoadsNoSymbol =>
         /\ Len(NewEvents) = 3
         /\ NewEvents[2].op = "dlopen" /\ NewEvents[2].ok
         /\ NewEvents[3].op = "dlsym" /\ ~NewEvents[3].ok
         /\ plugins' = plugins]_vars

\* nosym.so was loaded into a manager that holds two instances.
C6_Witness ==
    /\ LastCall \in SymbolFailures
    /\ Len(plugins) = 2

(* ------------------------------- C7 ------------------------------------ *)
\* No load has been called since the last clear().
NoLoadSinceClear == PrevClear(Now) > 0 /\ \A m \in LoadCalls : m < PrevClear(Now)
\* This step is a clear() or the destructor.
Clears ==
    /\ Len(trace') > Len(trace)
    /\ NewEvents[1].op \in {"call:clear", "call:~PluginManager"}

\* C7: a clear() (or the destructor) that follows a clear() with no load in
\* between calls no on_plugin_unload and no dlclose and leaves libraries,
\* plugins and the loader's reference counts as the first clear() left them.
C7_ShutdownIdempotent ==
    [][(Clears /\ NoLoadSinceClear) =>
         /\ Len(NewEvents) = 1
         /\ libraries' = libraries
         /\ plugins' = plugins
         /\ refs' = refs]_vars

\* Two clear() calls in a row, the first of which tore two plugins down.
C7_Witness ==
    \E c \in ClearCalls :
        /\ c = LastCall
        /\ PrevClear(c) > 0
        /\ \A m \in LoadCalls : m < PrevClear(c)
        /\ Len(Only(Segment(PrevClear(c)), "on_plugin_unload")) = 2
        /\ Len(Only(Segment(PrevClear(c)), "dlclose")) = 2

(* ------------------------------- C8 ------------------------------------ *)
Registrations == {k \in DOMAIN trace : trace[k].op = "register"}
CallsOf(op, id) == {j \in DOMAIN trace : trace[j].op = op /\ trace[j].id = id}

\* C8: for every plugin a registration produced, on_plugin_load is called
\* exactly once, right after plugin_register and before any other callback
\* of that plugin; on_plugin_unload is called at most once, exactly once as
\* soon as a clear() has followed the load (so in particular once the manager
\* is destroyed), while the library is still mapped and before its dlclose.
C8_LoadOnceUnloadOnce ==
    \A k \in Registrations :
        LET id == trace[k].id IN
        /\ k < Len(trace)
        /\ CallsOf("on_plugin_load", id) = {k + 1}
        /\ trace[k + 1].data = trace[k].data
        /\ \A j \in 1..(k - 1) : trace[j].id # id
        /\ Cardinality(CallsOf("on_plugin_unload", id)) <= 1
        /\ (PrevClear(Now) > k \/ ~alive) =>
              Cardinality(CallsOf("on_plugin_unload", id)) = 1
        /\ \A u \in CallsOf("on_plugin_unload", id) :
              /\ trace[u].mapped
              /\ \E j \in (u + 1)..Len(trace) :
                    /\ trace[j].op = "dlclose"
                    /\ trace[j].lib = trace[k].lib
                    /\ CallOf(j) = CallOf(u)

\* The manager has been destroyed after two plugins of the same library and
\* a broadcast.
C8_Witness ==
    /\ ~alive
    /\ \E j, k \in Registrations : j # k /\ trace[j].lib = trace[k].lib
    /\ \E k \in DOMAIN trace : trace[k].op = "on_file_save"

(* ------------------------------- C9 ------------------------------------ *)
\* C9: no plugin callback and no symbol resolution is performed on a library
\* that is not mapped (its handle dlclosed), and every instance the manager
\* holds has its library mapped.
C9_NoUseAfterUnload ==
    /\ \A k \in DOMAIN trace :
          trace[k].op \in Callbacks \cup {"dlsym", "register"} => trace[k].mapped
    /\ \A k \in DOMAIN plugins : refs[plugins[k].lib] > 0

\* A library was closed, loaded again, and its plugin called after that.
C9_Witness ==
    \E j, k \in DOMAIN trace :
        /\ j < k
        /\ trace[j].op = "dlclose"
        /\ trace[k].op = "on_file_save"
        /\ trace[k].lib = trace[j].lib
        /\ Len(plugins) > 0

(* ------------------------------- C10 ----------------------------------- *)
\* C10: a call of load, on_file_save or clear that a plugin callback makes
\* while clear() is executing is rejected: nothing is opened, resolved,
\* called or closed on its behalf.
C10_ReentrantCallsRejected ==
    \A k \in DOMAIN trace : trace[k].depth = 1 => trace[k].op \in CallOps

(* ------------------------------- C11 ----------------------------------- *)
SaveCalls == {m \in HostCalls : trace[m].op = "call:on_file_save"}
\* The state pointer that the registration of instance id returned.
RegData(id) == trace[CHOOSE k \in Registrations : trace[k].id = id].data

\* C11: one on_file_save(filename, contents) calls the on_file_save callback
\* of each instance loaded (since the last clear(), if any) exactly once, in
\* load order, with that instance's own state pointer and the filename and
\* contents it was given, and calls nothing else.
C11_BroadcastOncePerInstance ==
    \A m \in SaveCalls :
        LET seg == Segment(m) IN
        /\ Len(seg) = Len(HeldAt(m))
        /\ \A k \in DOMAIN seg :
              /\ seg[k].op = "on_file_save"
              /\ seg[k].id = HeldAt(m)[k]
              /\ seg[k].data = RegData(seg[k].id)
              /\ seg[k].file = trace[m].file
              /\ seg[k].contents = trace[m].contents

\* Three successful loads, no clear(), then a broadcast of "Hello World!".
C11_Witness ==
    \E m \in SaveCalls :
        /\ ClearCalls = {}
        /\ Len(HeldAt(m)) = 3
        /\ trace[m].contents = "Hello World!"
        /\ LibsOf(Segment(m)) = <<"a.so", "b.so", "a.so">>

(* ------------------------------- C12 ----------------------------------- *)
OpenedOk == {k \in DOMAIN trace : trace[k].op = "dlopen" /\ trace[k].ok}

\* C12: once the destructor has run, no library the manager mapped is still
\* mapped (also not one whose load failed at symbol resolution), every
\* instance has had its on_plugin_unload, and the manager holds nothing.
C12_DestructorShutsDown ==
    ~alive =>
        /\ trace[LastCall].op = "call:~PluginManager"
        /\ \A l \in Loadable : refs[l] = 0
        /\ \A k \in OpenedOk :
              \E j \in (k + 1)..Len(trace) :
                  trace[j].op = "dlclose" /\ trace[j].lib = trace[k].lib
        /\ \A k \in Registrations : CallsOf("on_plugin_unload", trace[k].id) # {}
        /\ libraries = << >>
        /\ plugins = << >>

\* The destructor closed the handle of a load that had failed at dlsym and
\* unloaded a plugin.
C12_Witness ==
    /\ ~alive
    /\ LET seg == Segment(LastCall) IN
         /\ \E k \in DOMAIN seg : seg[k].op = "dlclose" /\ seg[k].lib = "nosym.so"
         /\ \E k \in DOMAIN seg : seg[k].op = "on_plugin_unload"

(* ------------------------------- C13 ----------------------------------- *)
\* This step is a load; of a path that yields no plugin; of one that does.
Loads == Len(trace') > Len(trace) /\ NewEvents[1].op = "call:load"
LoadFails == Loads /\ NewEvents[1].lib \notin HasRegister
LoadSucceeds == Loads /\ NewEvents[1].lib \in HasRegister
IsPrefix(a, b) == Len(a) <= Len(b) /\ SubSeq(b, 1, Len(a)) = a

\* C13: a load that fails (the image cannot be mapped, or plugin_register is
\* missing) leaves the instances as they were and the handles it found in
\* place and in order (the handle of an image that was mapped but lacks the
\* symbol is added behind them, nothing otherwise), calls no
\* on_plugin_unload and no dlclose and unmaps nothing; a load of a valid
\* plugin, also after a failed one, appends its handle and its instance behind
\* the existing ones.
C13_FailedLoadIsolated ==
    [][/\ LoadFails =>
            /\ plugins' = plugins
            /\ IsPrefix(libraries, libraries')
            /\ libraries' = IF NewEvents[1].lib \in Loadable
                            THEN Append(libraries, NewEvents[1].lib) ELSE libraries
            /\ Only(NewEvents, "on_plugin_unload") = << >>
            /\ Only(NewEvents, "dlclose") = << >>
            /\ \A l \in Loadable : refs'[l] >= refs[l]
            /\ alive' = alive
       /\ LoadSucceeds =>
            /\ IsPrefix(plugins, plugins')
            /\ Len(plugins') = Len(plugins) + 1
            /\ plugins'[Len(plugins')].lib = NewEvents[1].lib
            /\ libraries' = Append(libraries, NewEvents[1].lib)
            /\ Len(Only(NewEvents, "on_plugin_load")) = 1]_vars

\* a.so loaded, then two loads that failed at the two stages, then b.so.
C13_Witness ==
    /\ LibsOf(plugins) = <<"a.so", "b.so">>
    /\ libraries = <<"a.so", "nosym.so", "b.so">>
    /\ Len(cerr) = 2
    /\ Only(trace, "dlclose") = << >>

(* ------------------------------- C14 ----------------------------------- *)
\* C14: the data argument of every on_plugin_load, on_file_save and
\* on_plugin_unload call is the data pointer of the descriptor that the
\* plugin's plugin_register returned, and the descriptors the manager holds
\* still carry that pointer.
C14_StatePassedVerbatim ==
    /\ \A k \in DOMAIN trace :
          trace[k].op \in Callbacks => trace[k].data = RegData(trace[k].id)
    /\ \A k \in DOMAIN plugins : plugins[k].data = RegData(plugins[k].id)

\* Two plugins with different state pointers went through all three
\* callbacks.
C14_Witness ==
    \A d \in {"state_a", "state_b"}, op \in Callbacks :
        \E k \in DOMAIN trace : trace[k].op = op /\ trace[k].data = d

(* ------------------------------- C17 ----------------------------------- *)
OpsOf(evs) == [k \in DOMAIN evs |-> evs[k].op]
Oks(evs) == [k \in DOMAIN evs |-> evs[k].ok]

\* C17: load runs dlopen, dlsym, plugin_register, on_plugin_load in this
\* order and then appends the instance, and stops at the first failure: after
\* a failed dlopen nothing else is called and neither collection changes;
\* after a failed dlsym nothing else is called and no instance is appended.
C17_LoadStagesInOrder ==
    [][Loads =>
         LET path == NewEvents[1].lib
             did == Tail(NewEvents)
         IN IF path \notin Loadable
            THEN /\ OpsOf(did) = <<"dlopen">> /\ Oks(did) = <<FALSE>>
                 /\ libraries' = libraries /\ plugins' = plugins
            ELSE IF path \notin HasRegister
            THEN /\ OpsOf(did) = <<"dlopen", "dlsym">> /\ Oks(did) = <<TRUE, FALSE>>
                 /\ plugins' = plugins
            ELSE /\ OpsOf(did) = <<"dlopen", "dlsym", "register", "on_plugin_load">>
                 /\ Oks(did) = <<TRUE, TRUE, TRUE, TRUE>>
                 /\ \A k \in DOMAIN did : did[k].lib = path
                 /\ did[4].id = did[3].id
                 /\ \A k \in DOMAIN plugins : plugins[k].id # did[3].id
                 /\ plugins' = Append(plugins, [id |-> did[3].id, lib |-> path,
                                                data |-> did[3].data])]_vars

\* Loads of all three kinds have been made.
C17_Witness ==
    /\ \E m \in LoadCalls : trace[m].lib \notin Loadable
    /\ SymbolFailures # {}
    /\ Registrations # {}

(* ------------------------------- C19 ----------------------------------- *)
Opens(l) == Cardinality({k \in OpenedOk : trace[k].lib = l})
Closes(l) == Cardinality({k \in DOMAIN trace : trace[k].op = "dlclose" /\ trace[k].lib = l})

\* C19: a handle is never dlclosed more often than dlopen returned it and
\* never while it is not mapped (no double close), and once the manager is
\* destroyed every handle has been dlclosed exactly as often as dlopen
\* returned it (no leak).
C19_ClosedExactlyOnce ==
    /\ \A k \in DOMAIN trace : trace[k].op = "dlclose" => trace[k].mapped
    /\ \A l \in Loadable :
          /\ Closes(l) <= Opens(l)
          /\ refs[l] = Opens(l) - Closes(l)
          /\ ~alive => Closes(l) = Opens(l)

\* a.so opened twice with a clear() in between, a load that failed at dlsym,
\* and the manager destroyed.
C19_Witness ==
    /\ ~alive
    /\ Opens("a.so") = 2
    /\ Opens("nosym.so") = 1
    /\ \E m \in HostCalls : trace[m].op = "call:clear"

(* ------------------------------- C20 ----------------------------------- *)
CallbacksTo(id) == {j \in DOMAIN trace : trace[j].op \in Callbacks /\ trace[j].id = id}

\* C20: the callbacks a plugin receives are on_plugin_load first, then only
\* on_file_save, then at most one on_plugin_unload, and nothing after it.
C20_CallbackShape ==
    \A k \in Registrations :
        LET mine == CallbacksTo(trace[k].id) IN
        /\ mine # {}
        /\ \A j \in mine :
              /\ (trace[j].op = "on_plugin_load") = (\A i \in mine : j <= i)
              /\ trace[j].op = "on_plugin_unload" => \A i \in mine : i <= j

\* A plugin was loaded, saved to and unloaded, and a broadcast followed.
C20_Witness ==
    \E k \in Registrations, m \in SaveCalls :
        LET mine == CallbacksTo(trace[k].id) IN
        /\ \E j \in mine : trace[j].op = "on_file_save"
        /\ \E j \in mine : trace[j].op = "on_plugin_unload" /\ j < m

(* ------------------------------- C15 ----------------------------------- *)
IsCallback(e) == e.op \in Callbacks
\* The four buffers the driver saves, in order.
SavedBuffers == <<"", "Hello World!", "Hello World!" \o Lorem, "">>

\* C15: the driver makes exactly four on_file_save calls, all for
\* "hello_world.txt", with the whole buffer each time: "", "Hello World!",
\* "Hello World!" followed by the long text, "" again; a plugin loaded from
\* argv[1] receives on_plugin_load, these four on_file_save calls in this
\* order, and on_plugin_unload, and nothing else.
C15_DriverScenario ==
    (main.pc = "exited" /\ main.ret = 0) =>
        LET saves == Only(trace, "call:on_file_save")
            cbs == SelectSeq(trace, IsCallback)
        IN /\ [k \in DOMAIN saves |-> saves[k].contents] = SavedBuffers
           /\ \A k \in DOMAIN saves : saves[k].file = "hello_world.txt"
           /\ Registers(main.argv[1]) =>
                 /\ OpsOf(cbs) = <<"on_plugin_load", "on_file_save", "on_file_save",
                                   "on_file_save", "on_file_save", "on_plugin_unload">>
                 /\ \A k \in DOMAIN cbs : cbs[k].id = 1 /\ cbs[k].lib = main.argv[1]
                 /\ [k \in 1..4 |-> cbs[k + 1].contents] = SavedBuffers
                 /\ \A k \in 2..5 : cbs[k].file = "hello_world.txt"

\* The driver has run to its end with plugin a.so.
C15_Witness ==
    /\ main.pc = "exited"
    /\ main.argv = <<"a.so">>
    /\ Len(Only(trace, "on_file_save")) = 4

(* ------------------------------- C16 ----------------------------------- *)
\* C16 as claimed: without a path argument the driver prints the usage
\* message, makes no manager call and exits with 1; in every other case it
\* exits with 0.
C16_ExitCodes ==
    main.pc = "exited" =>
        IF Argc = 1
        THEN main.ret = 1 /\ Len(cerr) = 1 /\ trace = << >>
        ELSE main.ret = 0

\* C16 as amended: when argc is not 2 (the path is missing, or there are
\* surplus arguments) the driver prints the usage message, constructs no
\* manager, makes no call and exits with 1; when argc is 2 it exits with 0
\* after one load and four broadcasts, whether the load succeeded or not, and
\* a failed load has written one diagnostic and no callback is ever called.
C16_ExitCodesByArgc ==
    main.pc = "exited" =>
        IF Argc # 2
        THEN /\ main.ret = 1
             /\ cerr = <<"USAGE: " \o ProgramName \o " <plugin.so>">>
             /\ trace = << >>
        ELSE /\ main.ret = 0
             /\ Len(Only(trace, "call:load")) = 1
             /\ Len(Only(trace, "call:on_file_save")) = 4
             /\ ~Registers(main.argv[1]) =>
                   /\ Len(cerr) = 1
                   /\ SelectSeq(trace, IsCallback) = << >>
             /\ Registers(main.argv[1]) => cerr = << >>

\* The driver has run to its end with a path that cannot be loaded.
C16_Witness ==
    /\ main.pc = "exited"
    /\ main.argv = <<"missing.so">>
    /\ main.ret = 0

(* ------------------------------- C18 ----------------------------------- *)
RECURSIVE Factorial(_)
Factorial(n) == IF n <= 0 THEN 1 ELSE n * Factorial(n - 1)

\* C18: the j-th call of the callback gets j! (and the caller's state
\* pointer); no call follows a call that returned 0; there are never more
\* than start calls, so none when start <= 0; and when the function has
\* returned, either the last call returned 0 or there were exactly start
\* calls: min(start, k) calls, k the first call that returned 0.
C18_CallbackPerIteration ==
    LET n == Len(calc.calls) IN
    /\ \A j \in 1..n :
          /\ calc.calls[j].arg = Factorial(j)
          /\ calc.calls[j].state = calc.state
          /\ j < n => calc.calls[j].ret # 0
    /\ n <= (IF calc.start > 0 THEN calc.start ELSE 0)
    /\ calc.pc = "returned" =>
          \/ n = (IF calc.start > 0 THEN calc.start ELSE 0)
          \/ n > 0 /\ calc.calls[n].ret = 0

\* The stateful version, called with start = 4, was stopped by its second
\* call.
C18_Witness ==
    /\ calc.pc = "returned"
    /\ calc.stateful
    /\ calc.start = 4
    /\ Len(calc.calls) = 2
    /\ calc.calls[2].arg = 2
    /\ calc.calls[2].ret = 0

(* ------------------------------- C21 ----------------------------------- *)
\* This step is a call of on_file_save.
Saves ==
    /\ Len(trace') > Len(trace)
    /\ NewEvents[1].op = "call:on_file_save"

\* C21: a call of on_file_save leaves libraries and plugins (contents, order
\* and data pointers) as they were, maps and unmaps no library, and makes no
\* call other than on_file_save callbacks: no dlopen, dlsym, dlclose,
\* plugin_register, on_plugin_load or on_plugin_unload; on a manager without
\* instances it makes no call at all.
C21_BroadcastReadOnly ==
    [][Saves =>
         /\ libraries' = libraries
         /\ plugins' = plugins
         /\ refs' = refs
         /\ nextId' = nextId
         /\ alive' = alive
         /\ cerr' = cerr
         /\ \A k \in 2..Len(NewEvents) : NewEvents[k].op = "on_file_save"
         /\ plugins = << >> => Len(NewEvents) = 1]_vars

\* a.so was loaded and a save reached it; after clear() a second save
\* reached nobody.
C21_Witness ==
    /\ Len(trace) >= 2
    /\ trace[Len(trace)].op = "call:on_file_save"
    /\ trace[Len(trace) - 1].op = "dlclose"
    /\ plugins = << >>
    /\ Len(Only(trace, "on_file_save")) = 1
    /\ Len(Only(trace, "call:on_file_save")) = 2
====
